---- MODULE Spec2Model ----
(***************************************************************************)
(* ConspiraLab (Ficha 5): the session-backed authentication middlewares.   *)
(*                                                                         *)
(*   exigirAutenticacao      - the Gate     (authMiddleware.js 64-74)      *)
(*   anexarUtilizadorAsViews - the Enricher (authMiddleware.js 112-149)    *)
(*                                                                         *)
(* A request runs a pipeline of stages.  Everything a stage does between   *)
(* two suspension points is one atomic step of the Node event loop: the    *)
(* only suspension point is the Enricher's `await User.findById(...)`.     *)
(* A call of next() runs the following stage synchronously, inside the     *)
(* same step.                                                              *)
(***************************************************************************)
EXTENDS Naturals, Sequences, FiniteSets

VARIABLES users,    \* the `users` collection: a set of User documents
          storeUp,  \* TRUE while the store answers queries
          session,  \* session id -> session content {userId, role}
          healed,   \* session id -> the Enricher cleared it and nobody logged in since
          req,      \* request slot -> the request being served there
          served,   \* number of requests accepted so far
          boot,     \* the server process: its start-up and whether it listens
          theories, \* the `theories` collection: a set of Theory documents
          seed,     \* the seed script process (scripts/seed.js)
          slug      \* one call of gerarSlug: its argument and its result

vars == <<users, storeUp, session, healed, req, served, boot, theories, seed, slug>>

(***************************************************************************)
(* Bounds and universes                                                    *)
(***************************************************************************)
MaxRequests == 2

Sessions == {"s1", "s2"}
Slots    == {"r1", "r2"}         \* request slots; Serial serves one request at a time
Serial   == {"r1"}
Keys     == {"a1", "a2"}            \* hexadecimal strings of the ObjectIds
Roles    == {"admin", "user"}

\* JavaScript values that are not strings or documents
Undefined == "undefined"
Null      == [type |-> "null"]
Unset     == [type |-> "undefined"]

\* `!x` of JavaScript for the values a session field can hold
Falsy(x) == x = Undefined \/ x = ""

(***************************************************************************)
(* User documents (models/User.js) and the store                           *)
(***************************************************************************)
ObjectId(hex) == [oid |-> hex]

\* ObjectId.prototype.toString
toString(id) == id.oid

\* the cast mongoose applies to the argument of findById
CastObjectId(str) == ObjectId(str)

SeedEmail(k) == IF k = "a1" THEN "admin@conspira.local" ELSE "user@conspira.local"

SeedName(k) == IF k = "a1" THEN "Administrador das Teorias" ELSE "Curioso Anonimo"

UserDoc(k, role) ==
    [_id          |-> ObjectId(k),
     email        |-> SeedEmail(k),
     displayName  |-> SeedName(k),
     passwordHash |-> "$2b$10$" \o k,
     role         |-> role,
     createdAt    |-> "t0",
     updatedAt    |-> "t0"]

AllUserDocs == {UserDoc(k, r) : k \in Keys, r \in Roles}

Exists(id) == \E d \in users : d._id = id

\* User.findById(ref) against the collection: the settlement of the promise
FindById(ref) ==
    IF ~storeUp
    THEN [kind |-> "rejected", value |-> Null]
    ELSE LET id == CastObjectId(ref) IN
         IF Exists(id)
         THEN [kind |-> "resolved", value |-> CHOOSE d \in users : d._id = id]
         ELSE [kind |-> "resolved", value |-> Null]

Pending == [kind |-> "pending", value |-> Null]

(***************************************************************************)
(* Requests                                                                *)
(***************************************************************************)
\* the stage lists a route can mount: E = Enricher, G = Gate, H = handler
EGH == <<"E", "G", "H">>     \* protected route, documented order
EH  == <<"E", "H">>          \* public route
GEH == <<"G", "E", "H">>     \* protected route, the two stages swapped

Pipelines == {EGH, EH, GEH}

EmptySession == [userId |-> Undefined, role |-> Undefined]

\* what the Gate read in req.session.userId, before it has run
NotRun == "not-run"

\* pc      where the request stands: idle, awaiting (findById pending),
\*         settled (promise settled, continuation not yet run), done
\* sid     the session the request's cookie resolves to
\* pipe    the stages of the route; stages: those still to run
\* cur     res.locals.currentUser
\* ref     the argument given to findById; result: its settlement
\* gateSaw the value of req.session.userId the Gate tested
\* fx      the effects of the stages, in order
IdleReq == [pc |-> "idle", sid |-> "s1", pipe |-> <<>>, stages |-> <<>>,
            cur |-> Unset, ref |-> Undefined, result |-> Pending,
            gateSaw |-> NotRun, fx |-> <<>>]

\* a machine state threaded through one synchronous run:
\*   m.s  the content of the request's session
\*   m.h  the session's healed flag
\*   m.r  the request
\*   m.u  the `users` collection
Emit(m, e) == [m EXCEPT !.r.fx = Append(@, e)]

Count(seq, e) == Cardinality({i \in DOMAIN seq : seq[i] = e})

Has(seq, e) == \E i \in DOMAIN seq : seq[i] = e

RECURSIVE next(_)

\* the route handler: out of scope, it only ends the response
handler(m) == [Emit(m, "H") EXCEPT !.r.pc = "done", !.r.stages = <<>>]

\* res.redirect("/login") by the Gate: the response is sent, nothing follows
Redirect(m) == [Emit(m, "G.redirect") EXCEPT !.r.pc = "done", !.r.stages = <<>>]

\* variant: the `return` before res.redirect is missing
exigirAutenticacao_noReturn(m) ==
    LET m1 == [m EXCEPT !.r.gateSaw = m.s.userId] IN
    IF Falsy(m1.s.userId)
    THEN next(Emit(Emit(m1, "G.redirect"), "G.next"))
    ELSE next(Emit(m1, "G.next"))

\* variant: the test reads a session field that is never set
exigirAutenticacao_wrongField(m) ==
    LET m1 == [m EXCEPT !.r.gateSaw = m.s.userId] IN
    Redirect(m1)

\* variant: the Gate also requires the referenced user to exist
exigirAutenticacao_verifies(m) ==
    LET m1 == [m EXCEPT !.r.gateSaw = m.s.userId] IN
    IF Falsy(m1.s.userId) \/ ~Exists(CastObjectId(m1.s.userId))
    THEN Redirect(m1)
    ELSE next(Emit(m1, "G.next"))

\* variant: the test is inverted, a session with a reference is redirected
exigirAutenticacao_inverted(m) ==
    LET m1 == [m EXCEPT !.r.gateSaw = m.s.userId] IN
    IF ~Falsy(m1.s.userId)
    THEN Redirect(m1)
    ELSE next(Emit(m1, "G.next"))

exigirAutenticacao(m) ==
    LET m1 == [m EXCEPT !.r.gateSaw = m.s.userId] IN
    IF Falsy(m1.s.userId)
    THEN Redirect(m1)
    ELSE next(Emit(m1, "G.next"))

\* variant: the document itself is exposed, with an id added
SafeUser_leaky(user) ==
    [id           |-> toString(user._id),
     displayName  |-> user.displayName,
     email        |-> user.email,
     role         |-> user.role,
     passwordHash |-> user.passwordHash]

\* the four-field object exposed to the views
SafeUser(user) ==
    [id          |-> toString(user._id),
     displayName |-> user.displayName,
     email       |-> user.email,
     role        |-> user.role]

\* variant: the test of req.session.userId is missing, every request looks up
anexarUtilizadorAsViews_alwaysLooksUp(m) ==
    LET m1 == [m EXCEPT !.r.cur = Null] IN
    [Emit(m1, "E.findById") EXCEPT !.r.pc = "awaiting",
                                   !.r.ref = m1.s.userId,
                                   !.r.result = Pending]

\* variant: the `await` is missing; `user` is the unsettled query, reading
\* user._id.toString() throws inside the try, the catch and next() follow
anexarUtilizadorAsViews_noAwait(m) ==
    LET m1 == [m EXCEPT !.r.cur = Null] IN
    IF Falsy(m1.s.userId)
    THEN next(Emit(m1, "E.next"))
    ELSE next(Emit(Emit([Emit(m1, "E.findById") EXCEPT !.r.ref = m1.s.userId,
                                                       !.r.result = Pending],
                        "E.log"), "E.next"))

\* variant: currentUser is not set to null on entry
anexarUtilizadorAsViews_noInit(m) ==
    IF Falsy(m.s.userId)
    THEN next(Emit(m, "E.next"))
    ELSE [Emit(m, "E.findById") EXCEPT !.r.pc = "awaiting",
                                       !.r.ref = m.s.userId,
                                       !.r.result = Pending]

\* the Enricher up to its await
anexarUtilizadorAsViews(m) ==
    LET m1 == [m EXCEPT !.r.cur = Null] IN
    IF Falsy(m1.s.userId)
    THEN next(Emit(m1, "E.next"))
    ELSE [Emit(m1, "E.findById") EXCEPT !.r.pc = "awaiting",
                                        !.r.ref = m1.s.userId,
                                        !.r.result = Pending]

\* variant: the cached role is left in the session
ClearSession_keepsRole(m) ==
    [Emit(m, "E.clear") EXCEPT !.s.userId = Undefined,
                               !.h = TRUE]

\* variant: the reference is left in the session
ClearSession_keepsUserId(m) ==
    [Emit(m, "E.clear") EXCEPT !.s.role = Undefined,
                               !.h = TRUE]

\* variant: the reference is overwritten with a string, which is truthy
ClearSession_stringNull(m) ==
    [Emit(m, "E.clear") EXCEPT !.s.userId = "null",
                               !.s.role = Undefined,
                               !.h = TRUE]

\* the not-found branch: forget the reference and the cached role
ClearSession(m) ==
    [Emit(m, "E.clear") EXCEPT !.s.userId = Undefined,
                               !.s.role = Undefined,
                               !.h = TRUE]

\* variant: no try/catch around the lookup, the rejection escapes
anexarResume_rethrows(m) ==
    IF m.r.result.kind = "rejected"
    THEN [Emit(m, "E.throw") EXCEPT !.r.pc = "done", !.r.stages = <<>>]
    ELSE IF m.r.result.value = Null
         THEN next(Emit(ClearSession(m), "E.next"))
         ELSE next(Emit([m EXCEPT !.r.cur = SafeUser(m.r.result.value)], "E.next"))

\* variant: the `return` of the not-found branch is missing; reading
\* user._id of null then throws inside the try, and the catch and the
\* final next() run as well
anexarResume_nextTwice(m) ==
    IF m.r.result.kind = "rejected"
    THEN next(Emit([Emit(m, "E.log") EXCEPT !.r.cur = Null], "E.next"))
    ELSE IF m.r.result.value = Null
         THEN next(Emit([Emit(next(Emit(ClearSession(m), "E.next")), "E.log")
                           EXCEPT !.r.cur = Null], "E.next"))
         ELSE next(Emit([m EXCEPT !.r.cur = SafeUser(m.r.result.value)], "E.next"))

\* variant: the not-found branch does not touch the session
anexarResume_noClear(m) ==
    IF m.r.result.kind = "rejected"
    THEN next(Emit([Emit(m, "E.log") EXCEPT !.r.cur = Null], "E.next"))
    ELSE IF m.r.result.value = Null
         THEN next(Emit(m, "E.next"))
         ELSE next(Emit([m EXCEPT !.r.cur = SafeUser(m.r.result.value)], "E.next"))

\* variant: the not-found branch insists on finding the reference it clears
\* and throws, outside the try, when another request cleared it first
anexarResume_failsWhenCleared(m) ==
    IF m.r.result.kind = "rejected"
    THEN next(Emit([Emit(m, "E.log") EXCEPT !.r.cur = Null], "E.next"))
    ELSE IF m.r.result.value = Null
         THEN IF Falsy(m.s.userId)
              THEN [Emit(m, "E.throw") EXCEPT !.r.pc = "done", !.r.stages = <<>>]
              ELSE next(Emit(ClearSession(m), "E.next"))
         ELSE next(Emit([m EXCEPT !.r.cur = SafeUser(m.r.result.value)], "E.next"))

\* variant: the found document is stamped and saved
anexarResume_touchesUser(m) ==
    IF m.r.result.kind = "rejected"
    THEN next(Emit([Emit(m, "E.log") EXCEPT !.r.cur = Null], "E.next"))
    ELSE IF m.r.result.value = Null
         THEN next(Emit(ClearSession(m), "E.next"))
         ELSE next(Emit([m EXCEPT !.r.cur = SafeUser(m.r.result.value),
                                  !.u = {IF d._id = m.r.result.value._id
                                         THEN [d EXCEPT !.updatedAt = "t1"]
                                         ELSE d : d \in m.u}],
                        "E.next"))

\* variant: the found document is kept in the session
anexarResume_cachesUser(m) ==
    IF m.r.result.kind = "rejected"
    THEN next(Emit([Emit(m, "E.log") EXCEPT !.r.cur = Null], "E.next"))
    ELSE IF m.r.result.value = Null
         THEN next(Emit(ClearSession(m), "E.next"))
         ELSE next(Emit([m EXCEPT !.r.cur = SafeUser(m.r.result.value),
                                  !.s = [userId |-> m.s.userId,
                                         role   |-> m.s.role,
                                         user   |-> m.r.result.value]],
                        "E.next"))

\* variant: the role shown is the one cached in the session
anexarResume_sessionRole(m) ==
    IF m.r.result.kind = "rejected"
    THEN next(Emit([Emit(m, "E.log") EXCEPT !.r.cur = Null], "E.next"))
    ELSE IF m.r.result.value = Null
         THEN next(Emit(ClearSession(m), "E.next"))
         ELSE next(Emit([m EXCEPT !.r.cur = [SafeUser(m.r.result.value)
                                                EXCEPT !.role = m.s.role]],
                        "E.next"))

\* variant: the catch clears the session as the not-found branch does
anexarResume_clearsOnError(m) ==
    IF m.r.result.kind = "rejected"
    THEN next(Emit(Emit(ClearSession(m), "E.log"), "E.next"))
    ELSE IF m.r.result.value = Null
         THEN next(Emit(ClearSession(m), "E.next"))
         ELSE next(Emit([m EXCEPT !.r.cur = SafeUser(m.r.result.value)], "E.next"))

\* the Enricher after its await, the promise being settled
anexarResume(m) ==
    IF m.r.result.kind = "rejected"
    THEN next(Emit([Emit(m, "E.log") EXCEPT !.r.cur = Null], "E.next"))
    ELSE IF m.r.result.value = Null
         THEN next(Emit(ClearSession(m), "E.next"))
         ELSE next(Emit([m EXCEPT !.r.cur = SafeUser(m.r.result.value)], "E.next"))

\* next(): run the following stage of the pipeline
next(m) ==
    IF m.r.stages = <<>>
    THEN [m EXCEPT !.r.pc = "done"]
    ELSE LET st == Head(m.r.stages)
             m1 == [m EXCEPT !.r.stages = Tail(@)]
         IN  CASE st = "G" -> exigirAutenticacao(m1)
               [] st = "E" -> anexarUtilizadorAsViews(m1)
               [] OTHER    -> handler(m1)

\* one whole run of the Enricher alone on a session content, the store
\* answering at once: start, settlement of the lookup, continuation
Enrich(sess) ==
    LET fresh == [IdleReq EXCEPT !.pc = "running", !.pipe = <<"E">>, !.stages = <<"E">>]
        m1 == next([s |-> sess, h |-> FALSE, r |-> fresh, u |-> users])
    IN  IF m1.r.pc = "awaiting"
        THEN anexarResume([m1 EXCEPT !.r.pc = "settled",
                                     !.r.result = FindById(m1.r.ref)])
        ELSE m1

Machine(r) == [s |-> session[req[r].sid], h |-> healed[req[r].sid], r |-> req[r],
               u |-> users]

\* variant: currentUser is one variable of the process, shared by the requests
Commit_sharedCurrentUser(r, m) ==
    /\ req' = [q \in Slots |-> IF q = r THEN m.r
                               ELSE IF req[q].pc \in {"awaiting", "settled"}
                                    THEN [req[q] EXCEPT !.cur = m.r.cur]
                                    ELSE req[q]]
    /\ session' = [session EXCEPT ![m.r.sid] = m.s]
    /\ healed' = [healed EXCEPT ![m.r.sid] = m.h]
    /\ users' = m.u

Commit(r, m) ==
    /\ req' = [req EXCEPT ![r] = m.r]
    /\ session' = [session EXCEPT ![m.r.sid] = m.s]
    /\ healed' = [healed EXCEPT ![m.r.sid] = m.h]
    /\ users' = m.u

\* the server process while it serves requests: started and listening
Serving == [pc |-> "listening"]

\* the seed script while it is not run
NoSeed == [pc |-> "not-run"]

\* gerarSlug while it is not called
NoSlug == [pc |-> "not-called"]

(***************************************************************************)
(* Actions                                                                 *)
(***************************************************************************)
Init ==
    /\ users = {UserDoc("a1", "admin"), UserDoc("a2", "user")}
    /\ storeUp = TRUE
    /\ session = [s \in Sessions |-> EmptySession]
    /\ healed = [s \in Sessions |-> FALSE]
    /\ req = [r \in Slots |-> IdleReq]
    /\ served = 0
    /\ boot = Serving
    /\ theories = {}
    /\ seed = NoSeed
    /\ slug = NoSlug

\* a request arrives on session s for a route mounting pipeline p
RequestStart(r, s, p) ==
    /\ req[r].pc \in {"idle", "done"}
    /\ served < MaxRequests
    /\ served' = served + 1
    /\ LET fresh == [IdleReq EXCEPT !.pc = "running", !.sid = s,
                                    !.pipe = p, !.stages = p]
           m == next([s |-> session[s], h |-> healed[s], r |-> fresh, u |-> users])
       IN  Commit(r, m)
    /\ UNCHANGED <<storeUp, boot, theories, seed, slug>>

\* the store settles the pending findById of request r
StoreAnswer(r) ==
    /\ req[r].pc = "awaiting"
    /\ req' = [req EXCEPT ![r].pc = "settled", ![r].result = FindById(req[r].ref)]
    /\ UNCHANGED <<users, storeUp, session, healed, served, boot, theories, seed, slug>>

\* the continuation of the Enricher of request r runs
EnricherResume(r) ==
    /\ req[r].pc = "settled"
    /\ Commit(r, anexarResume(Machine(r)))
    /\ UNCHANGED <<storeUp, served, boot, theories, seed, slug>>

\* a successful login on session s as user u
Login(s, k) ==
    /\ storeUp
    /\ \E d \in users :
         /\ d._id = ObjectId(k)
         /\ session' = [session EXCEPT ![s] = [userId |-> toString(d._id), role |-> d.role]]
    /\ healed' = [healed EXCEPT ![s] = FALSE]
    /\ UNCHANGED <<users, storeUp, req, served, boot, theories, seed, slug>>

\* logout: the session loses its content
Logout(s) ==
    /\ ~Falsy(session[s].userId)
    /\ session' = [session EXCEPT ![s] = EmptySession]
    /\ UNCHANGED <<users, storeUp, healed, req, served, boot, theories, seed, slug>>

DeleteUser(k) ==
    /\ storeUp
    /\ Exists(ObjectId(k))
    /\ users' = {d \in users : d._id # ObjectId(k)}
    /\ UNCHANGED <<storeUp, session, healed, req, served, boot, theories, seed, slug>>

CreateUser(k, role) ==
    /\ storeUp
    /\ ~Exists(ObjectId(k))
    /\ users' = users \cup {UserDoc(k, role)}
    /\ UNCHANGED <<storeUp, session, healed, req, served, boot, theories, seed, slug>>

StoreFail ==
    /\ storeUp
    /\ storeUp' = FALSE
    /\ UNCHANGED <<users, session, healed, req, served, boot, theories, seed, slug>>

StoreRecover ==
    /\ ~storeUp
    /\ storeUp' = TRUE
    /\ UNCHANGED <<users, session, healed, req, served, boot, theories, seed, slug>>

Next ==
    \/ \E r \in Serial, s \in Sessions, p \in Pipelines : RequestStart(r, s, p)
    \/ \E r \in Serial : StoreAnswer(r)
    \/ \E r \in Serial : EnricherResume(r)
    \/ \E s \in Sessions, k \in Keys : Login(s, k)
    \/ \E s \in Sessions : Logout(s)
    \/ \E k \in Keys : DeleteUser(k)
    \/ \E k \in Keys, role \in Roles : CreateUser(k, role)
    \/ StoreFail
    \/ StoreRecover

Spec == Init /\ [][Next]_vars

\* requests in flight together: both slots serve, on public and protected
\* routes, while users log in and user documents are deleted
NextConc ==
    \/ \E r \in Slots, s \in Sessions, p \in {EGH, EH} : RequestStart(r, s, p)
    \/ \E r \in Slots : StoreAnswer(r)
    \/ \E r \in Slots : EnricherResume(r)
    \/ \E s \in Sessions, k \in Keys : Login(s, k)
    \/ \E k \in Keys : DeleteUser(k)

SpecConc == Init /\ [][NextConc]_vars

\* requests in flight together while the store fails and recovers
NextRetry ==
    \/ \E r \in Slots, s \in Sessions, p \in {EGH, EH} : RequestStart(r, s, p)
    \/ \E r \in Slots : StoreAnswer(r)
    \/ \E r \in Slots : EnricherResume(r)
    \/ \E s \in Sessions, k \in Keys : Login(s, k)
    \/ StoreFail
    \/ StoreRecover

SpecRetry == Init /\ [][NextRetry]_vars

TypeOK ==
    /\ users \subseteq AllUserDocs
    /\ storeUp \in BOOLEAN
    /\ served \in 0..MaxRequests
    /\ \A s \in Sessions : session[s].userId \in Keys \cup {Undefined}
    /\ \A r \in Slots : req[r].pc \in {"idle", "awaiting", "settled", "done"}

(***************************************************************************)
(* Start-up of the server process                                          *)
(*                                                                         *)
(* Two entry modules are in the repository: index.js, and a later one      *)
(* that imports the app and calls startServer().  Both import the name     *)
(* connectToDataBase from src/config/database.js.  Two modules claim that  *)
(* path: the one that exports connectToDataBase (reads MONGODB_URL, never  *)
(* connects) and one that exports connectToDatabase (reads MONGODB_URI,    *)
(* connects with mongoose).                                                *)
(***************************************************************************)
Entries == {"index.js", "server"}

ConfigModules == {"connectToDataBase", "connectToDatabase"}

DefaultPort == "3000"

MongoUri == "mongodb+srv://cluster"

\* process.env: each variable is set or not
Environments ==
    [MONGODB_URI     : {Undefined, MongoUri},
     MONGODB_URL     : {Undefined, MongoUri},
     MONGODB_DB_NAME : {Undefined, "ficha5"},
     PORT            : {Undefined, "8080"}]

\* pc       start, startServer (awaiting the connection function), resolved,
\*          rejected, listening, exited (process.exit or end of script),
\*          crashed (the module graph did not link)
\* log      the lines written to the console and the calls made
BootStart(entry, config, env) ==
    [pc |-> "start", entry |-> entry, config |-> config, env |-> env,
     connectCalls |-> 0, connected |-> FALSE, listening |-> FALSE,
     dbName |-> Undefined, port |-> Undefined, exitCode |-> Undefined,
     log |-> <<>>]

InitStart ==
    /\ users = {}
    /\ storeUp = TRUE
    /\ session = [s \in Sessions |-> EmptySession]
    /\ healed = [s \in Sessions |-> FALSE]
    /\ req = [r \in Slots |-> IdleReq]
    /\ served = 0
    /\ \E entry \in Entries, config \in ConfigModules, env \in Environments :
         boot = BootStart(entry, config, env)
    /\ theories = {}
    /\ seed = NoSeed
    /\ slug = NoSlug

\* index.js is loaded: its import "./src/config/database" has no file
\* extension, which the module loader may refuse; when it loads, the
\* script defines startServer, never calls it, and ends
LoadIndex ==
    /\ boot.pc = "start"
    /\ boot.entry = "index.js"
    /\ \/ boot' = [boot EXCEPT !.pc = "crashed", !.exitCode = "1",
                               !.log = Append(@, "ERR_MODULE_NOT_FOUND")]
       \/ /\ boot.config = "connectToDataBase"
          /\ boot' = [boot EXCEPT !.pc = "exited", !.exitCode = "0"]
    /\ UNCHANGED <<users, storeUp, session, healed, req, served, theories, seed, slug>>

\* the later entry module is loaded and calls startServer(); the import of
\* connectToDataBase links only with the module that exports that name
LoadServer ==
    /\ boot.pc = "start"
    /\ boot.entry = "server"
    /\ IF boot.config = "connectToDataBase"
       THEN boot' = [boot EXCEPT !.pc = "startServer"]
       ELSE boot' = [boot EXCEPT !.pc = "crashed", !.exitCode = "1",
                                 !.log = Append(@, "SyntaxError: no export connectToDataBase")]
    /\ UNCHANGED <<users, storeUp, session, healed, req, served, theories, seed, slug>>

\* src/config/database.js: the connection function startServer awaits
connectToDataBase(b) ==
    LET uri == b.env.MONGODB_URL IN
    IF Falsy(uri)
    THEN [b EXCEPT !.pc = "rejected",
                   !.log = Append(@, "throw: A Variavel de ambiente MONGO_DB nao existe.")]
    ELSE [b EXCEPT !.pc = "resolved",
                   !.dbName = IF Falsy(b.env.MONGODB_DB_NAME)
                              THEN "ficha5_conspiracoes"
                              ELSE b.env.MONGODB_DB_NAME]

\* startServer up to the settlement of `await connectToDataBase()`
StartServer ==
    /\ boot.pc = "startServer"
    /\ boot' = connectToDataBase(boot)
    /\ UNCHANGED <<users, storeUp, session, healed, req, served, theories, seed, slug>>

\* startServer after the await: app.listen(PORT, ...)
Listen ==
    /\ boot.pc = "resolved"
    /\ boot' = [boot EXCEPT !.pc = "listening", !.listening = TRUE,
                            !.port = IF Falsy(boot.env.PORT) THEN DefaultPort
                                                             ELSE boot.env.PORT,
                            !.log = Append(@, "Servidor a correr na porta")]
    /\ UNCHANGED <<users, storeUp, session, healed, req, served, theories, seed, slug>>

\* the catch of startServer: console.error and process.exit(1)
CatchExit ==
    /\ boot.pc = "rejected"
    /\ boot' = [boot EXCEPT !.pc = "exited", !.exitCode = "1",
                            !.log = Append(@, "Erro Critico ao arrancar o servidor")]
    /\ UNCHANGED <<users, storeUp, session, healed, req, served, theories, seed, slug>>

NextStart ==
    \/ LoadIndex
    \/ LoadServer
    \/ StartServer
    \/ Listen
    \/ CatchExit

SpecStart == InitStart /\ [][NextStart]_vars

(***************************************************************************)
(* gerarSlug (scripts/seed.js 64-73)                                       *)
(*                                                                         *)
(* A string is a sequence of characters; a character is written as itself  *)
(* when it is printable ASCII and by its code point otherwise.             *)
(***************************************************************************)
MaxTitleLen == 3

Alphabet == <<"a", "b", "c", "d", "e", "f", "g", "h", "i", "j", "k", "l", "m",
              "n", "o", "p", "q", "r", "s", "t", "u", "v", "w", "x", "y", "z">>

Capitals == <<"A", "B", "C", "D", "E", "F", "G", "H", "I", "J", "K", "L", "M",
              "N", "O", "P", "Q", "R", "S", "T", "U", "V", "W", "X", "Y", "Z">>

Lower == {Alphabet[i] : i \in DOMAIN Alphabet}

Upper == {Capitals[i] : i \in DOMAIN Capitals}

Digits == {"0", "1", "2", "3", "4", "5", "6", "7", "8", "9"}

\* the class \s of a regular expression: space, tab, no-break space
Whitespace == {" ", "U+0009", "U+00A0"}

\* the range U+0300..U+036F: acute, circumflex, tilde, cedilla
CombiningMarks == {"U+0301", "U+0302", "U+0303", "U+0327"}

\* canonical decompositions of the precomposed letters of Portuguese
Decomposition ==
    [c \in {"U+00E1", "U+00E2", "U+00E3", "U+00E7", "U+00E9", "U+00EA",
            "U+00ED", "U+00F3", "U+00F5", "U+00FA", "U+00C1"} |->
        CASE c = "U+00E1" -> <<"a", "U+0301">>
          [] c = "U+00E2" -> <<"a", "U+0302">>
          [] c = "U+00E3" -> <<"a", "U+0303">>
          [] c = "U+00E7" -> <<"c", "U+0327">>
          [] c = "U+00E9" -> <<"e", "U+0301">>
          [] c = "U+00EA" -> <<"e", "U+0302">>
          [] c = "U+00ED" -> <<"i", "U+0301">>
          [] c = "U+00F3" -> <<"o", "U+0301">>
          [] c = "U+00F5" -> <<"o", "U+0303">>
          [] c = "U+00FA" -> <<"u", "U+0301">>
          [] c = "U+00C1" -> <<"A", "U+0301">>]

RECURSIVE normalizeNFD(_)
\* String.prototype.normalize("NFD")
normalizeNFD(str) ==
    IF str = <<>>
    THEN <<>>
    ELSE (IF Head(str) \in DOMAIN Decomposition
          THEN Decomposition[Head(str)]
          ELSE <<Head(str)>>) \o normalizeNFD(Tail(str))

NotCombiningMark(c) == c \notin CombiningMarks

\* title.normalize("NFD").replace(/[U+0300..U+036F]/g, "")
semAcentos(title) == SelectSeq(normalizeNFD(title), NotCombiningMark)

\* String.prototype.toLowerCase
toLowerCase(str) ==
    [i \in DOMAIN str |->
        IF str[i] \in Upper
        THEN Alphabet[CHOOSE k \in DOMAIN Capitals : Capitals[k] = str[i]]
        ELSE str[i]]

RECURSIVE trimStart(_)
trimStart(str) ==
    IF str # <<>> /\ Head(str) \in Whitespace THEN trimStart(Tail(str)) ELSE str

RECURSIVE trimEnd(_)
trimEnd(str) ==
    IF str # <<>> /\ str[Len(str)] \in Whitespace
    THEN trimEnd(SubSeq(str, 1, Len(str) - 1))
    ELSE str

\* String.prototype.trim
trim(str) == trimEnd(trimStart(str))

\* the complement of the class [^a-z0-9\s-]
NotStrange(c) == c \in Lower \cup Digits \cup Whitespace \cup {"-"}

RECURSIVE replaceRuns(_, _)
\* str.replace(/X+/g, "-") for a character class X
replaceRuns(str, class) ==
    IF str = <<>>
    THEN <<>>
    ELSE IF Head(str) \in class
         THEN IF Len(str) > 1 /\ str[2] \in class
              THEN replaceRuns(Tail(str), class)
              ELSE <<"-">> \o replaceRuns(Tail(str), class)
         ELSE <<Head(str)>> \o replaceRuns(Tail(str), class)

\* variant: the last replace, which collapses repeated hyphens, is missing
gerarSlug_noCollapse(title) ==
    replaceRuns(SelectSeq(trim(toLowerCase(semAcentos(title))), NotStrange),
                Whitespace)

gerarSlug(title) ==
    replaceRuns(
        replaceRuns(SelectSeq(trim(toLowerCase(semAcentos(title))), NotStrange),
                    Whitespace),
        {"-"})

\* the characters the titles are drawn from: a letter, a capital, a digit,
\* a space, a tab, a hyphen, a punctuation mark, a precomposed accented
\* letter and a combining mark on its own
TitleChars == {"a", "B", "7", " ", "U+0009", "-", "!", "U+00E1", "U+0301"}

Titles == UNION {[1..n -> TitleChars] : n \in 0..MaxTitleLen}

InitSlug ==
    /\ users = {}
    /\ storeUp = TRUE
    /\ session = [s \in Sessions |-> EmptySession]
    /\ healed = [s \in Sessions |-> FALSE]
    /\ req = [r \in Slots |-> IdleReq]
    /\ served = 0
    /\ boot = Serving
    /\ theories = {}
    /\ seed = NoSeed
    /\ \E title \in Titles : slug = [pc |-> "called", title |-> title, out |-> <<>>]

\* one call of gerarSlug returns
GerarSlug ==
    /\ slug.pc = "called"
    /\ slug' = [slug EXCEPT !.pc = "returned", !.out = gerarSlug(slug.title)]
    /\ UNCHANGED <<users, storeUp, session, healed, req, served, boot, theories, seed>>

NextSlug == GerarSlug

SpecSlug == InitSlug /\ [][NextSlug]_vars

(***************************************************************************)
(* The seed script (scripts/seed.js)                                       *)
(*                                                                         *)
(* runSeed is one asynchronous function: each `await` is a suspension      *)
(* point, and what runs between two of them is one step.  A store call     *)
(* made while the store is down settles as a rejection.                    *)
(***************************************************************************)
MaxRuns == 2

HexDigits == <<"0", "1", "2", "3", "4", "5", "6", "7",
               "8", "9", "a", "b", "c", "d", "e", "f">>

\* the n-th value generated in a process: ObjectIds and bcrypt salts are new
\* at every generation
Hex(n) == HexDigits[(n \div 16) + 1] \o HexDigits[(n % 16) + 1]

\* bcrypt.hash(plainPassword, saltRounds) with the salt it generates
gerarPasswordHash(plainPassword, salt) == "$2b$10$" \o salt \o "." \o plainPassword

\* the two users of criarUtilizadores, with the hashes of their passwords
usersToCreate(salt1, salt2) ==
    <<[email        |-> "admin@conspira.local",
       displayName  |-> "Administrador das Teorias",
       passwordHash |-> gerarPasswordHash("admin123", salt1),
       role         |-> "admin"],
      [email        |-> "user@conspira.local",
       displayName  |-> "Curioso Anonimo",
       passwordHash |-> gerarPasswordHash("user123", salt2),
       role         |-> "user"]>>

teoriasBase ==
    <<
     [complexityLevel |-> "medium",
      title |->
        <<"O", "s", " ", "p", "a", "t", "o", "s", " ", "d", "o", "s", " ",
          "j", "a", "r", "d", "i", "n", "s", " ", "p", "U+00FA", "b", "l",
          "i", "c", "o", "s", " ", "s", "U+00E3", "o", " ", "d", "r", "o",
          "n", "e", "s", " ", "g", "o", "v", "e", "r", "n", "a", "m", "e",
          "n", "t", "a", "i", "s", " ", "d", "i", "s", "f", "a", "r",
          "U+00E7", "a", "d", "o", "s">>],
     [complexityLevel |-> "medium",
      title |->
        <<"O", "s", " ", "p", "o", "m", "b", "o", "s", " ", "u", "r", "b",
          "a", "n", "o", "s", " ", "t", "U+00EA", "m", " ", "r", "e", "u",
          "n", "i", "U+00F5", "e", "s", " ", "s", "e", "c", "r", "e", "t",
          "a", "s", " ", "p", "a", "r", "a", " ", "d", "e", "c", "i", "d",
          "i", "r", " ", "o", "n", "d", "e", " ", "f", "a", "z", "e", "r",
          " ", "c", "o", "c", "U+00F3">>],
     [complexityLevel |-> "medium",
      title |->
        <<"A", "s", " ", "m", "e", "i", "a", "s", " ", "d", "e", "s", "a",
          "p", "a", "r", "e", "c", "i", "d", "a", "s", " ", "n", "a", " ",
          "m", "U+00E1", "q", "u", "i", "n", "a", " ", "d", "e", " ", "l",
          "a", "v", "a", "r", " ", "v", "U+00E3", "o", " ", "p", "a", "r",
          "a", " ", "o", "u", "t", "r", "a", " ", "d", "i", "m", "e", "n",
          "s", "U+00E3", "o">>],
     [complexityLevel |-> "high",
      title |->
        <<"A", "s", " ", "e", "m", "p", "r", "e", "s", "a", "s", " ", "f",
          "u", "n", "e", "r", "U+00E1", "r", "i", "a", "s", " ", "c", "r",
          "i", "a", "r", "a", "m", " ", "o", " ", "d", "e", "s", "p", "o",
          "r", "t", "o", " ", "r", "a", "d", "i", "c", "a", "l", " ", "p",
          "a", "r", "a", " ", "a", "u", "m", "e", "n", "t", "a", "r", " ",
          "o", " ", "n", "e", "g", "U+00F3", "c", "i", "o">>],
     [complexityLevel |-> "medium",
      title |->
        <<"O", "s", " ", "f", "a", "b", "r", "i", "c", "a", "n", "t", "e",
          "s", " ", "d", "e", " ", "a", "l", "a", "r", "m", "e", "s", " ",
          "d", "e", " ", "i", "n", "c", "U+00EA", "n", "d", "i", "o", " ",
          "s", "a", "b", "e", "m", " ", "e", "x", "a", "t", "a", "m", "e",
          "n", "t", "e", " ", "q", "u", "a", "n", "d", "o", " ", "v", "a",
          "i", "s", " ", "a", "d", "o", "r", "m", "e", "c", "e", "r">>],
     [complexityLevel |-> "medium",
      title |->
        <<"O", "s", " ", "s", "e", "m", "U+00E1", "f", "o", "r", "o", "s",
          " ", "e", "m", "p", "U+00E1", "t", "i", "c", "o", "s", " ", "q",
          "u", "e", " ", "a", "j", "u", "s", "t", "a", "m", " ", "o", " ",
          "t", "r", "U+00E2", "n", "s", "i", "t", "o", " ", "a", "o", " ",
          "h", "u", "m", "o", "r", " ", "d", "a", " ", "c", "i", "d", "a",
          "d", "e">>],
     [complexityLevel |-> "high",
      title |->
        <<"A", "s", " ", "m", "U+00E1", "q", "u", "i", "n", "a", "s", " ",
          "d", "e", " ", "c", "a", "f", "U+00E9", " ", "q", "u", "e", " ",
          "t", "r", "e", "i", "n", "a", "m", " ", "a", "l", "g", "o", "r",
          "i", "t", "m", "o", "s", " ", "d", "e", " ", "p", "r", "o", "d",
          "u", "t", "i", "v", "i", "d", "a", "d", "e", " ", "s", "e", "c",
          "r", "e", "t", "a">>],
     [complexityLevel |-> "medium",
      title |->
        <<"O", "s", " ", "c", "a", "r", "r", "e", "g", "a", "d", "o", "r",
          "e", "s", " ", "d", "e", " ", "t", "e", "l", "e", "m", "U+00F3",
          "v", "e", "l", " ", "q", "u", "e", " ", "a", "f", "i", "n", "a",
          "m", " ", "o", " ", "c", "i", "c", "l", "o", " ", "d", "e", " ",
          "s", "o", "n", "o", " ", "d", "o", "s", " ", "e", "s", "t", "u",
          "d", "a", "n", "t", "e", "s">>],
     [complexityLevel |-> "high",
      title |->
        <<"A", "s", " ", "p", "l", "a", "n", "t", "a", "s", " ", "d", "e",
          "c", "o", "r", "a", "t", "i", "v", "a", "s", " ", "q", "u", "e",
          " ", "m", "e", "d", "e", "m", " ", "o", " ", "n", "U+00ED", "v",
          "e", "l", " ", "d", "e", " ", "a", "t", "e", "n", "U+00E7",
          "U+00E3", "o", " ", "n", "a", "s", " ", "s", "a", "l", "a", "s",
          " ", "d", "e", " ", "a", "u", "l", "a", " ", "o", "n", "l", "i",
          "n", "e">>],
     [complexityLevel |-> "low",
      title |->
        <<"O", "s", " ", "r", "e", "l", "U+00F3", "g", "i", "o", "s", " ",
          "d", "e", " ", "p", "a", "r", "e", "d", "e", " ", "q", "u", "e",
          " ", "s", "i", "n", "c", "r", "o", "n", "i", "z", "a", "m", " ",
          "p", "e", "q", "u", "e", "n", "o", "s", " ", "a", "t", "r", "a",
          "s", "o", "s", " ", "e", "m", " ", "r", "e", "u", "n", "i",
          "U+00F5", "e", "s", " ", "i", "m", "p", "o", "r", "t", "a", "n",
          "t", "e", "s">>]
    >>

\* teoriasBase.map(...): each theory with its slug
teoriasParaCriar ==
    [i \in DOMAIN teoriasBase |->
        [title           |-> teoriasBase[i].title,
         slug            |-> gerarSlug(teoriasBase[i].title),
         complexityLevel |-> teoriasBase[i].complexityLevel]]

\* Model.insertMany(docs): the documents as stored, the i-th with the
\* ObjectId generated for it and the timestamps of the schema
insertMany(docs, firstId, now) ==
    {[field \in DOMAIN docs[i] \cup {"_id", "createdAt", "updatedAt"} |->
        CASE field = "_id"       -> ObjectId(Hex(firstId + i - 1))
          [] field = "createdAt" -> now
          [] field = "updatedAt" -> now
          [] OTHER               -> docs[i][field]] : i \in DOMAIN docs}

\* variant: deleteMany leaves the collection as it is
deleteMany_keeps(collection) == collection

\* Model.deleteMany({}): the collection afterwards
deleteMany(collection) == {}

\* what the collections can hold before the script is run
OldUsers == {UserDoc("a1", "admin"), UserDoc("a2", "user")}

OldTheories ==
    {[_id |-> ObjectId("b1"), title |-> <<"O", "l", "d">>, slug |-> <<"o", "l", "d">>,
      complexityLevel |-> "low", createdAt |-> "t0", updatedAt |-> "t0"]}

\* pc       where runSeed stands: the call whose settlement it awaits
\* pre      the collections when the run began; last: the collections at
\*          the end of the latest run that succeeded (ok: there was one)
\* created  what criarUtilizadores and criarTeorias returned
\* log      the calls made and the lines written, in order
SeedStart(config, uri) ==
    [pc |-> "start", config |-> config, uri |-> uri, run |-> 1,
     connected |-> FALSE, nextId |-> 0, log |-> <<>>,
     pre |-> [users |-> {}, theories |-> {}],
     last |-> [ok |-> FALSE, users |-> {}, theories |-> {}],
     created |-> [users |-> {}, theories |-> {}]]

Log(p, e) == [p EXCEPT !.log = Append(@, e)]

InitSeed ==
    /\ users \in SUBSET OldUsers
    /\ theories \in SUBSET OldTheories
    /\ storeUp \in BOOLEAN
    /\ session = [s \in Sessions |-> EmptySession]
    /\ healed = [s \in Sessions |-> FALSE]
    /\ req = [r \in Slots |-> IdleReq]
    /\ served = 0
    /\ boot = [pc |-> "not-started"]
    /\ slug = NoSlug
    /\ \E config \in ConfigModules, uri \in {Undefined, MongoUri} :
         seed = SeedStart(config, uri)

\* src/config/database.js as imported by the seed script: the function up
\* to its `await mongoose.connect(uri, {dbName})`
connectToDatabase(p) ==
    IF Falsy(p.uri)
    THEN [Log(p, "throw: A Variavel de ambiente MONGO_DB nao existe.")
            EXCEPT !.pc = "rejected"]
    ELSE [Log(p, "mongoose.connect") EXCEPT !.pc = "mongoose.connect"]

\* variant: the disconnect is the last statement of the try block
runSeedFinally_onSuccessOnly(p) ==
    IF Has(p.log, "console.error: Erro durante o seed")
    THEN [p EXCEPT !.pc = "finished"]
    ELSE [Log(p, "mongoose.disconnect") EXCEPT !.pc = "mongoose.disconnect"]

\* the finally block of runSeed up to its `await mongoose.disconnect()`
runSeedFinally(p) ==
    [Log(p, "mongoose.disconnect") EXCEPT !.pc = "mongoose.disconnect"]

\* variant: the catch logs and goes on with the theories
runSeedCatch_goesOn(p) ==
    LET p1 == Log(p, "console.error: Erro durante o seed") IN
    IF p.pc \in {"User.deleteMany", "User.insertMany"}
    THEN [Log(p1, "A criar teorias da conspiracao...") EXCEPT !.pc = "Theory.deleteMany"]
    ELSE runSeedFinally(p1)

\* the catch block of runSeed, then the finally block
runSeedCatch(p) ==
    runSeedFinally(Log(p, "console.error: Erro durante o seed"))

\* variant: the theories are created before the users
criarUtilizadoresStart_theoriesFirst(p) ==
    [Log(p, "A criar teorias da conspiracao...") EXCEPT !.pc = "Theory.deleteMany"]

\* criarUtilizadores up to its `await User.deleteMany({})`
criarUtilizadoresStart(p) ==
    [Log(p, "A criar utilizadores...") EXCEPT !.pc = "User.deleteMany"]

\* criarTeorias up to its `await Theory.deleteMany({})`
criarTeoriasStart(p) ==
    [Log(p, "A criar teorias da conspiracao...") EXCEPT !.pc = "Theory.deleteMany"]

\* runSeed after criarTeorias returned: the summary, then the finally block
runSeedSummary(p) ==
    runSeedFinally(Log(p, "Seed concluido com sucesso!"))

SeedFrame == UNCHANGED <<storeUp, session, healed, req, served, boot, slug>>

\* `node scripts/seed.js`: the module graph links only if the config module
\* exports connectToDatabase; then runSeed() runs up to its first await
RunSeed ==
    /\ seed.pc = "start"
    /\ IF seed.config = "connectToDatabase"
       THEN LET p0 == [seed EXCEPT !.pre = [users |-> users, theories |-> theories]]
                p1 == connectToDatabase(Log(p0, "A iniciar script de seed..."))
            IN  seed' = IF p1.pc = "rejected" THEN runSeedCatch(p1) ELSE p1
       ELSE seed' = [Log(seed, "SyntaxError: no export connectToDatabase")
                        EXCEPT !.pc = "crashed"]
    /\ UNCHANGED <<users, theories>>
    /\ SeedFrame

\* mongoose.connect settles; connectToDatabase logs and rethrows a failure
ConnectSettles ==
    /\ seed.pc = "mongoose.connect"
    /\ IF storeUp
       THEN seed' = criarUtilizadoresStart(
                        [Log(seed, "Ligacao ao mongo foi feita") EXCEPT !.connected = TRUE])
       ELSE seed' = runSeedCatch(Log(seed, "Erro ao ligar a base de dados"))
    /\ UNCHANGED <<users, theories>>
    /\ SeedFrame

\* User.deleteMany({}) settles
UserDeleteManySettles ==
    /\ seed.pc = "User.deleteMany"
    /\ IF storeUp
       THEN /\ users' = deleteMany(users)
            /\ seed' = [Log(seed, "User.deleteMany") EXCEPT !.pc = "bcrypt.hash"]
       ELSE /\ users' = users
            /\ seed' = runSeedCatch(seed)
    /\ UNCHANGED theories
    /\ SeedFrame

\* the two calls of gerarPasswordHash settle; User.insertMany is called
HashSettles ==
    /\ seed.pc = "bcrypt.hash"
    /\ seed' = [seed EXCEPT !.pc = "User.insertMany", !.nextId = @ + 2]
    /\ UNCHANGED <<users, theories>>
    /\ SeedFrame

\* User.insertMany(usersToCreate) settles; criarTeorias starts
UserInsertManySettles ==
    /\ seed.pc = "User.insertMany"
    /\ IF storeUp
       THEN LET docs == insertMany(usersToCreate(Hex(seed.nextId - 2), Hex(seed.nextId - 1)),
                                   seed.nextId, "t" \o Hex(seed.run))
            IN  /\ users' = users \cup docs
                /\ seed' = criarTeoriasStart(
                               [Log(seed, "2 utilizadores criados.")
                                   EXCEPT !.created.users = docs, !.nextId = @ + 2])
       ELSE /\ users' = users
            /\ seed' = runSeedCatch(seed)
    /\ UNCHANGED theories
    /\ SeedFrame

\* Theory.deleteMany({}) settles
TheoryDeleteManySettles ==
    /\ seed.pc = "Theory.deleteMany"
    /\ IF storeUp
       THEN /\ theories' = deleteMany(theories)
            /\ seed' = [Log(seed, "Theory.deleteMany") EXCEPT !.pc = "Theory.insertMany"]
       ELSE /\ theories' = theories
            /\ seed' = runSeedCatch(seed)
    /\ UNCHANGED users
    /\ SeedFrame

\* Theory.insertMany(teoriasParaCriar) settles; runSeed prints its summary
TheoryInsertManySettles ==
    /\ seed.pc = "Theory.insertMany"
    /\ IF storeUp
       THEN LET docs == insertMany(teoriasParaCriar, seed.nextId, "t" \o Hex(seed.run))
            IN  /\ theories' = theories \cup docs
                /\ seed' = runSeedSummary(
                               [Log(seed, "10 teorias criadas.")
                                   EXCEPT !.created.theories = docs,
                                          !.nextId = @ + Len(teoriasParaCriar)])
       ELSE /\ theories' = theories
            /\ seed' = runSeedCatch(seed)
    /\ UNCHANGED users
    /\ SeedFrame

\* mongoose.disconnect() settles: the last line is logged, the script ends
DisconnectSettles ==
    /\ seed.pc = "mongoose.disconnect"
    /\ seed' = [Log(seed, "Ligacao ao MongoDB fechada.")
                   EXCEPT !.pc = "finished", !.connected = FALSE]
    /\ UNCHANGED <<users, theories>>
    /\ SeedFrame

\* the script is run again, in a new process
RunSeedAgain ==
    /\ seed.pc = "finished"
    /\ seed.run < MaxRuns
    /\ seed' = [SeedStart(seed.config, seed.uri)
                   EXCEPT !.run = seed.run + 1,
                          !.nextId = seed.nextId,
                          !.last = IF Has(seed.log, "Seed concluido com sucesso!")
                                   THEN [ok |-> TRUE, users |-> users, theories |-> theories]
                                   ELSE seed.last]
    /\ UNCHANGED <<users, theories>>
    /\ SeedFrame

StoreFailSeed ==
    /\ seed.pc \notin {"start", "finished", "crashed"}
    /\ StoreFail

StoreRecoverSeed ==
    /\ seed.pc \notin {"start", "finished", "crashed"}
    /\ StoreRecover

NextSeed ==
    \/ RunSeed
    \/ ConnectSettles
    \/ UserDeleteManySettles
    \/ HashSettles
    \/ UserInsertManySettles
    \/ TheoryDeleteManySettles
    \/ TheoryInsertManySettles
    \/ DisconnectSettles
    \/ RunSeedAgain
    \/ StoreFailSeed
    \/ StoreRecoverSeed

SpecSeed == InitSeed /\ [][NextSeed]_vars

(***************************************************************************)
(* Properties                                                              *)
(***************************************************************************)
Done(r) == req[r].pc = "done"

Starts(r) == \E s \in Sessions, p \in Pipelines : RequestStart(r, s, p)

NotFound(r) == req[r].result.kind = "resolved" /\ req[r].result.value = Null

Found(r) == req[r].result.kind = "resolved" /\ req[r].result.value # Null

Rejected(r) == req[r].result.kind = "rejected"

\* the effects a stage can have
EnricherFx == {"E.findById", "E.clear", "E.log", "E.next"}
GateFx     == {"G.redirect", "G.next"}

\* C1: a Gate that reads no identity reference in the session redirects
\* exactly once, never calls next(), the handler is not reached, the Gate
\* touches neither the store nor the session, and its redirect ends the
\* request; the state of the store plays no part.
C1_GateFailsClosed ==
    \A r \in Slots :
        (req[r].gateSaw # NotRun /\ Falsy(req[r].gateSaw)) =>
            /\ Count(req[r].fx, "G.redirect") = 1
            /\ ~Has(req[r].fx, "G.next")
            /\ ~Has(req[r].fx, "H")
            /\ req[r].fx[Len(req[r].fx)] = "G.redirect"
            /\ req[r].pc = "done"
            /\ (req[r].pipe = GEH => ~Has(req[r].fx, "E.findById"))

C1_Witness ==
    \E r \in Slots :
        /\ req[r].gateSaw = Undefined
        /\ Has(req[r].fx, "G.redirect")
        /\ ~storeUp

\* C2: a Gate that reads an identity reference calls next() exactly once
\* and never redirects, whether or not the referenced user exists; the
\* step in which it does so changes neither a session nor the store.
C2_GatePassesOnReference ==
    /\ [](\A r \in Slots :
            (req[r].gateSaw # NotRun /\ ~Falsy(req[r].gateSaw)) =>
                /\ Count(req[r].fx, "G.next") = 1
                /\ ~Has(req[r].fx, "G.redirect"))
    /\ [][\A r \in Slots :
            ( /\ Has(req'[r].fx, "G.next")
              /\ Starts(r) \/ (req[r].gateSaw = NotRun /\ EnricherResume(r)) ) =>
                /\ session' = session
                /\ users' = users
                /\ (Starts(r) /\ ~Falsy(session[req'[r].sid].userId)
                        => req'[r].gateSaw = session[req'[r].sid].userId)]_vars

\* the Gate let through a reference to a user the lookup then did not find
C2_Witness ==
    \E r \in Slots :
        /\ req[r].pipe = GEH
        /\ Done(r)
        /\ NotFound(r)
        /\ Count(req[r].fx, "G.next") = 1

\* C3: when the lookup finds the user, currentUser is exactly the record
\* {id, displayName, email, role} of that user and the pipeline goes on.
C3_SafeProjection ==
    \A r \in Slots :
        (Done(r) /\ Found(r)) =>
            /\ DOMAIN req[r].cur = {"id", "displayName", "email", "role"}
            /\ req[r].cur.id = req[r].ref
            /\ req[r].cur.displayName = req[r].result.value.displayName
            /\ req[r].cur.email = req[r].result.value.email
            /\ req[r].cur.role = req[r].result.value.role
            /\ Count(req[r].fx, "E.next") = 1

C3_Witness ==
    \E r \in Slots :
        /\ Done(r)
        /\ Found(r)
        /\ "passwordHash" \in DOMAIN req[r].result.value
        /\ "createdAt" \in DOMAIN req[r].result.value
        /\ req[r].cur.role = "admin"

\* C4: when the lookup finds no user, the continuation of the Enricher
\* clears userId and role of the session, leaves currentUser null and
\* calls next().
C4_NotFoundClears ==
    [][\A r \in Slots :
        (NotFound(r) /\ EnricherResume(r)) =>
            /\ session'[req[r].sid] = EmptySession
            /\ req'[r].cur = Null
            /\ Count(req'[r].fx, "E.next") = 1
            /\ Has(req'[r].fx, "E.clear")]_vars

C4_Witness ==
    \E r \in Slots :
        /\ Done(r)
        /\ NotFound(r)
        /\ Has(req[r].fx, "E.clear")
        /\ session[req[r].sid] = EmptySession
        /\ req[r].cur = Null

\* C5: once the Enricher has cleared a session, and until a login puts a
\* reference back, the session holds no reference, and every request that
\* arrives on it finishes at once, without a lookup and with currentUser
\* null when the Enricher runs.
C5_SelfHealing ==
    /\ [](\A s \in Sessions : healed[s] => Falsy(session[s].userId))
    /\ [][\A r \in Slots, s \in Sessions, p \in Pipelines :
            (healed[s] /\ RequestStart(r, s, p)) =>
                /\ ~Has(req'[r].fx, "E.findById")
                /\ req'[r].pc = "done"
                /\ (Head(p) = "E" => req'[r].cur = Null)
                /\ healed'[s]]_vars

\* a request served on a healed session, after the one that healed it
C5_Witness ==
    \E r \in Slots :
        /\ Done(r)
        /\ healed[req[r].sid]
        /\ ~Has(req[r].fx, "E.clear")
        /\ Has(req[r].fx, "E.next")
        /\ req[r].cur = Null

\* C6: when the lookup is rejected, the continuation of the Enricher logs
\* the error, leaves currentUser null and calls next() once; the request
\* completes and nothing is thrown.
C6_FailOpen ==
    [][\A r \in Slots :
        (Rejected(r) /\ EnricherResume(r)) =>
            /\ Has(req'[r].fx, "E.log")
            /\ req'[r].cur = Null
            /\ Count(req'[r].fx, "E.next") = 1
            /\ ~Has(req'[r].fx, "E.throw")
            /\ req'[r].pc = "done"
            /\ (req[r].pipe = EH => Has(req'[r].fx, "H"))]_vars

C6_Witness ==
    \E r \in Slots :
        /\ Done(r)
        /\ Rejected(r)
        /\ req[r].pipe = EH
        /\ Has(req[r].fx, "H")
        /\ req[r].cur = Null

\* C7: on a protected route (Enricher, then Gate), a request whose lookup
\* was rejected is redirected to login and does not reach the handler.
C7_FailClosedOnStoreError ==
    \A r \in Slots :
        (Done(r) /\ req[r].pipe = EGH /\ Rejected(r)) =>
            /\ Has(req[r].fx, "G.redirect")
            /\ ~Has(req[r].fx, "H")

\* C8: the Enricher has no effect but a lookup, a session clear, a log
\* line and next(); it has not called next() while its lookup is pending,
\* has called it exactly once when the request is over, throws nothing,
\* and on a route without Gate the handler is always reached.
C8_EnricherAlwaysContinues ==
    \A r \in Slots :
        /\ \A i \in DOMAIN req[r].fx : req[r].fx[i] \in EnricherFx \cup GateFx \cup {"H"}
        /\ (req[r].pc \in {"awaiting", "settled"} => ~Has(req[r].fx, "E.next"))
        /\ (Done(r) /\ req[r].cur # Unset) => Count(req[r].fx, "E.next") = 1
        /\ (Done(r) /\ req[r].pipe = EH) =>
               /\ req[r].fx[Len(req[r].fx)] = "H"
               /\ ~Has(req[r].fx, "G.redirect")

C8_Witness ==
    \E r \in Slots :
        /\ Done(r)
        /\ req[r].pipe = EH
        /\ NotFound(r)
        /\ Count(req[r].fx, "E.next") = 1
        /\ Has(req[r].fx, "H")

\* C9: on a protected route (Enricher, then Gate), when the lookup finds
\* no user, the same step leaves currentUser null, clears userId, and the
\* Gate reads no reference and redirects; the handler is not reached.
C9_StaleReferenceRedirects ==
    [][\A r \in Slots :
        (req[r].pipe = EGH /\ NotFound(r) /\ EnricherResume(r)) =>
            /\ req'[r].cur = Null
            /\ session'[req[r].sid].userId = Undefined
            /\ req'[r].gateSaw = Undefined
            /\ req'[r].fx = <<"E.findById", "E.clear", "E.next", "G.redirect">>
            /\ req'[r].pc = "done"]_vars

C9_Witness ==
    \E r \in Slots :
        /\ Done(r)
        /\ req[r].pipe = EGH
        /\ NotFound(r)
        /\ Has(req[r].fx, "G.redirect")
        /\ ~Has(req[r].fx, "H")

\* C10: with the Gate mounted before the Enricher, a request whose
\* session references a user that is not in the store passes the Gate and,
\* the lookup finding nobody, still reaches the handler; with the Enricher
\* mounted first, the same lookup outcome ends in the redirect.
C10_OrderIsLoadBearing ==
    /\ [][\A r \in Slots, s \in Sessions :
            ( /\ ~Falsy(session[s].userId)
              /\ ~Exists(CastObjectId(session[s].userId))
              /\ RequestStart(r, s, GEH) ) =>
                /\ Has(req'[r].fx, "G.next")
                /\ ~Has(req'[r].fx, "G.redirect")
                /\ req'[r].pc = "awaiting"]_vars
    /\ [](\A r \in Slots :
            (Done(r) /\ NotFound(r)) =>
                /\ (req[r].pipe = GEH => Has(req[r].fx, "H"))
                /\ (req[r].pipe = EGH => ~Has(req[r].fx, "H")))

C10_Witness ==
    \E r \in Slots :
        /\ Done(r)
        /\ req[r].pipe = GEH
        /\ NotFound(r)
        /\ Has(req[r].fx, "G.next")
        /\ Has(req[r].fx, "H")

\* the Enricher has run in the request
EnricherRan(r) == Has(req[r].fx, "E.findById") \/ Has(req[r].fx, "E.next")

InFlight(r) == req[r].pc \in {"awaiting", "settled"}

\* C11: a request that arrives on a session without identity reference
\* ends in its first step, without any lookup; where the Enricher runs it
\* leaves currentUser null, and a protected route answers with the redirect.
C11_AnonymousNoStoreCall ==
    [][\A r \in Slots, s \in Sessions, p \in Pipelines :
        (Falsy(session[s].userId) /\ RequestStart(r, s, p)) =>
            /\ ~Has(req'[r].fx, "E.findById")
            /\ req'[r].result = Pending
            /\ req'[r].pc = "done"
            /\ (p = EGH => req'[r].cur = Null /\ req'[r].fx = <<"E.next", "G.redirect">>)
            /\ (p = EH  => req'[r].cur = Null /\ req'[r].fx = <<"E.next", "H">>)
            /\ (p = GEH => req'[r].fx = <<"G.redirect">>)]_vars

C11_Witness ==
    \E r \in Slots :
        /\ Done(r)
        /\ req[r].pipe = EGH
        /\ req[r].fx = <<"E.next", "G.redirect">>
        /\ req[r].cur = Null
        /\ req[r].result = Pending

\* both requests of a session found the same reference stale and cleared it
BothCleared(r, q) ==
    /\ r # q
    /\ Done(r) /\ Done(q)
    /\ req[r].sid = req[q].sid
    /\ req[r].ref = req[q].ref
    /\ Has(req[r].fx, "E.clear") /\ Has(req[q].fx, "E.clear")

\* C12: when the continuation of a request finds no user, the session is
\* cleared afterwards, the other request is left as it was, and a clear of
\* a session the other request has already cleared changes nothing; two
\* requests that both cleared the same reference both end with currentUser
\* null and one call of next(), and neither has thrown.
C12_ConcurrentClear ==
    /\ [][\A r \in Slots :
            (NotFound(r) /\ EnricherResume(r)) =>
                /\ session'[req[r].sid] = EmptySession
                /\ \A q \in Slots \ {r} : req'[q] = req[q]
                /\ (session[req[r].sid] = EmptySession => session' = session)
                /\ req'[r].cur = Null
                /\ Count(req'[r].fx, "E.next") = 1
                /\ ~Has(req'[r].fx, "E.throw")]_vars
    /\ [](\A r, q \in Slots :
            BothCleared(r, q) =>
                /\ req[r].cur = Null /\ req[q].cur = Null
                /\ Count(req[r].fx, "E.next") = 1 /\ Count(req[q].fx, "E.next") = 1
                /\ (healed[req[r].sid] => session[req[r].sid] = EmptySession))

C12_Witness ==
    \E r, q \in Slots :
        /\ BothCleared(r, q)
        /\ session[req[r].sid] = EmptySession
        /\ req[r].cur = Null /\ req[q].cur = Null

\* C13: in every reachable state of store and sessions, running the
\* Enricher on a session and then again on the session it left gives the
\* same currentUser; and when the first run gave null without a store
\* error, the second run makes no lookup, clears nothing and leaves the
\* session and the users as they are.
C13_Idempotent ==
    \A s \in Sessions :
        LET m1 == Enrich(session[s])
            m2 == Enrich(m1.s)
        IN  /\ m2.r.cur = m1.r.cur
            /\ m2.r.pc = "done"
            /\ (m1.r.cur = Null /\ m1.r.result.kind # "rejected") =>
                   /\ ~Has(m2.r.fx, "E.clear")
                   /\ ~Has(m2.r.fx, "E.findById")
                   /\ m2.s = m1.s
                   /\ m2.u = users
            /\ ~Has(m2.r.fx, "E.clear")

\* a session holds a stale reference: the first run clears it
C13_Witness ==
    \E s \in Sessions :
        /\ ~Falsy(session[s].userId)
        /\ storeUp
        /\ Has(Enrich(session[s]).r.fx, "E.clear")
        /\ Enrich(Enrich(session[s]).s).r.fx = <<"E.next">>

\* C14: a request makes at most one lookup, all of it by the Enricher;
\* while the lookup is pending or its continuation has not run, no later
\* stage has started in an Enricher-first pipeline; and next() of the
\* Enricher follows the lookup, which is then settled.
C14_OneAwaitedRead ==
    \A r \in Slots :
        /\ Count(req[r].fx, "E.findById") <= 1
        /\ InFlight(r) =>
               /\ ~Has(req[r].fx, "E.next")
               /\ ~Has(req[r].fx, "H")
               /\ (Head(req[r].pipe) = "E" => req[r].gateSaw = NotRun)
        /\ (Has(req[r].fx, "E.findById") /\ Has(req[r].fx, "E.next")) =>
               /\ req[r].result.kind \in {"resolved", "rejected"}
               /\ \A i, j \in DOMAIN req[r].fx :
                      (req[r].fx[i] = "E.findById" /\ req[r].fx[j] = "E.next") => i < j
        /\ (req[r].pc = "awaiting") => req[r].result = Pending

C14_Witness ==
    \E r \in Slots :
        /\ Done(r)
        /\ req[r].pipe = EGH
        /\ Found(r)
        /\ req[r].fx = <<"E.findById", "E.next", "G.next", "H">>

\* C15: with requests in flight together, the currentUser of a request is
\* null or the projection of the document its own lookup returned, whose
\* id is the reference read from its own session; a step of one request
\* changes nothing of another request.
C15_RequestIsolation ==
    /\ [](\A r \in Slots :
            /\ req[r].cur \notin {Null, Unset} =>
                   /\ Found(r)
                   /\ req[r].cur.id = req[r].ref
                   /\ req[r].cur.id = toString(req[r].result.value._id)
                   /\ req[r].cur.email = req[r].result.value.email
            /\ InFlight(r) => req[r].cur = Null)
    /\ [][\A r \in Slots :
            (req'[r] # req[r]) =>
                /\ \A q \in Slots \ {r} : req'[q] = req[q]
                /\ (req[r].pc \in {"idle", "done"} /\ req'[r].pc = "awaiting"
                        => req'[r].ref = session[req'[r].sid].userId)]_vars

\* two requests of different sessions, each showing its own user
C15_Witness ==
    \E r, q \in Slots :
        /\ Done(r) /\ Done(q)
        /\ req[r].sid # req[q].sid
        /\ Found(r) /\ Found(q)
        /\ req[r].cur.id = "a1"
        /\ req[q].cur.id = "a2"

\* C16: once the Enricher has run, currentUser is never left unset: it is
\* null while the lookup is in flight, and at the end it is other than
\* null exactly when the lookup returned a user.
C16_OutputAlwaysWritten ==
    \A r \in Slots :
        /\ EnricherRan(r) => req[r].cur # Unset
        /\ InFlight(r) => req[r].cur = Null
        /\ (Done(r) /\ EnricherRan(r)) => (req[r].cur # Null <=> Found(r))
        /\ (Done(r) /\ ~EnricherRan(r)) => req[r].cur = Unset

C16_Witness ==
    \E r \in Slots :
        /\ Done(r)
        /\ NotFound(r)
        /\ req[r].cur = Null

\* C17: no step of a request (its arrival, the settlement of its lookup,
\* the continuation of the Enricher) changes the users collection.
C17_UsersReadOnly ==
    [][users' # users =>
          \A r \in Slots : ~(Starts(r) \/ StoreAnswer(r) \/ EnricherResume(r))]_vars

C17_Witness ==
    \E r \in Slots :
        /\ Done(r)
        /\ Found(r)
        /\ req[r].result.value \in users
        /\ Has(req[r].fx, "H")

\* C18: a step of a request changes a session only in the not-found
\* continuation of the Enricher, which empties the session of the request;
\* and a session only ever holds the two fields userId and role.
C18_OnlyClearWritesSession ==
    /\ [][\A r \in Slots :
            (session' # session /\ (Starts(r) \/ StoreAnswer(r) \/ EnricherResume(r))) =>
                /\ req[r].pc = "settled"
                /\ NotFound(r)
                /\ session' = [session EXCEPT ![req[r].sid] = EmptySession]]_vars
    /\ [](\A s \in Sessions :
            /\ DOMAIN session[s] = {"userId", "role"}
            /\ session[s].userId \in Keys \cup {Undefined}
            /\ session[s].role \in Roles \cup {Undefined})

\* a found user and a store error, the session still as the login left it
C18_Witness ==
    \E r \in Slots :
        /\ Done(r)
        /\ Rejected(r)
        /\ session[req[r].sid].userId = req[r].ref
        /\ session[req[r].sid].role \in Roles

\* C19: when MONGODB_URI is not defined, the connection function throws
\* before any connection attempt and the server never listens.
C19_MissingUriIsFatal ==
    Falsy(boot.env.MONGODB_URI) =>
        /\ ~boot.listening
        /\ boot.connectCalls = 0
        /\ boot.port = Undefined

\* C20: the server listens only once the connection function has
\* completed with a connection to the store established; a start-up that
\* exited or crashed never listens.
C20_ListenAfterConnect ==
    /\ boot.listening => (boot.connected /\ boot.connectCalls >= 1)
    /\ boot.pc \in {"exited", "crashed"} => ~boot.listening

C26_RoleFromStore ==
    /\ [](\A r \in Slots :
            (Done(r) /\ req[r].cur \notin {Null, Unset}) =>
                /\ Found(r)
                /\ req[r].cur.role = req[r].result.value.role)
    /\ [][\A r \in Slots :
            (Found(r) /\ EnricherResume(r)) =>
                /\ req'[r].cur.role = req[r].result.value.role
                /\ session' = session]_vars

\* the session caches one role, the stored user has the other, and the
\* output carries the stored one
C26_Witness ==
    \E r \in Slots :
        /\ Done(r)
        /\ Found(r)
        /\ session[req[r].sid].role \in Roles
        /\ session[req[r].sid].role # req[r].result.value.role
        /\ req[r].cur.role = req[r].result.value.role

\* C27: a store error during enrichment leaves the session as it was
\* (reference and cached role), and does not mark it healed; a request that
\* arrives on a session holding a reference always does a lookup of that
\* reference; a lookup the store answers for an existing user finds it,
\* and the user is then exposed, with no login in between
C27_StoreErrorKeepsSession ==
    /\ [][\A r \in Slots :
            (Rejected(r) /\ EnricherResume(r)) =>
                /\ session' = session
                /\ healed' = healed
                /\ req'[r].cur = Null]_vars
    /\ [][\A r \in Slots, s \in Sessions :
            (~Falsy(session[s].userId) /\ (RequestStart(r, s, EGH) \/ RequestStart(r, s, EH))) =>
                /\ req'[r].fx = <<"E.findById">>
                /\ req'[r].ref = session[s].userId
                /\ req'[r].pc = "awaiting"]_vars
    /\ [][\A r \in Slots :
            (storeUp /\ Exists(CastObjectId(req[r].ref)) /\ StoreAnswer(r)) =>
                /\ req'[r].result.kind = "resolved"
                /\ req'[r].result.value # Null]_vars
    /\ [](\A r \in Slots :
            (Done(r) /\ Found(r)) => req[r].cur = SafeUser(req[r].result.value))

\* two requests on one session: the lookup of one was rejected, the other
\* found the user of the reference the session still holds
C27_Witness ==
    \E r, q \in Slots :
        /\ r # q
        /\ req[r].sid = req[q].sid
        /\ req[r].ref = req[q].ref
        /\ Done(q) /\ Rejected(q) /\ req[q].cur = Null
        /\ Done(r) /\ Found(r) /\ req[r].cur # Null
        /\ session[req[r].sid].userId = req[r].ref

\* C28: in every interleaving, the Enricher clears a reference only if the
\* reference the session holds at the moment of the clear points to no
\* existing user
C28_ClearKeepsValidLogin ==
    [][\A r \in Slots :
        ( /\ NotFound(r)
          /\ ~Falsy(session[req[r].sid].userId)
          /\ EnricherResume(r) ) =>
            ~Exists(CastObjectId(session[req[r].sid].userId))]_vars

(***************************************************************************)
(* Properties of the seed script                                           *)
(***************************************************************************)
\* the example of the doc comment of gerarSlug (seed.js 49)
ExampleTitle ==
    <<"T", "e", "o", "r", "i", "a", " ", "d", "o", "s", " ", "s", "e", "m",
      "U+00E1", "f", "o", "r", "o", "s", " ", "e", "m", "p", "U+00E1", "t",
      "i", "c", "o", "s">>

ExampleSlug ==
    <<"t", "e", "o", "r", "i", "a", "-", "d", "o", "s", "-", "s", "e", "m",
      "a", "f", "o", "r", "o", "s", "-", "e", "m", "p", "a", "t", "i", "c",
      "o", "s">>

\* only lowercase ASCII letters, digits and hyphens, no two hyphens in a row
WellFormedSlug(out) ==
    /\ \A i \in DOMAIN out : out[i] \in Lower \cup Digits \cup {"-"}
    /\ \A i \in DOMAIN out : i < Len(out) => ~(out[i] = "-" /\ out[i + 1] = "-")

\* the unaccented lowercase letter or digit a character stands for
LetterOf(c) ==
    LET base == IF c \in DOMAIN Decomposition THEN Decomposition[c][1] ELSE c IN
    IF base \in Upper
    THEN Alphabet[CHOOSE k \in DOMAIN Capitals : Capitals[k] = base]
    ELSE base

IsLetterOrDigit(c) == c \in Lower \cup Upper \cup Digits \cup DOMAIN Decomposition

RECURSIVE AsWritten(_, _, _)
\* one pass over a title: letters lower-cased without accents, other
\* characters dropped, each run of spaces replaced by one hyphen
AsWritten(str, acc, inRun) ==
    IF str = <<>>
    THEN acc
    ELSE LET c == Head(str) IN
         IF IsLetterOrDigit(c)
         THEN AsWritten(Tail(str), Append(acc, LetterOf(c)), FALSE)
         ELSE IF c \in Whitespace
              THEN AsWritten(Tail(str), IF inRun THEN acc ELSE Append(acc, "-"), TRUE)
              ELSE IF c = "-"
                   THEN AsWritten(Tail(str), Append(acc, "-"), FALSE)
                   ELSE AsWritten(Tail(str), acc, inRun)

RECURSIVE OneHyphenPerRun(_, _)
\* one pass over a title: letters lower-cased without accents, other
\* characters dropped, each run of spaces and hyphens replaced by one hyphen
OneHyphenPerRun(str, acc) ==
    IF str = <<>>
    THEN acc
    ELSE LET c == Head(str) IN
         IF IsLetterOrDigit(c)
         THEN OneHyphenPerRun(Tail(str), Append(acc, LetterOf(c)))
         ELSE IF c \in Whitespace \cup {"-"}
              THEN OneHyphenPerRun(Tail(str),
                                   IF acc # <<>> /\ acc[Len(acc)] = "-"
                                   THEN acc
                                   ELSE Append(acc, "-"))
              ELSE OneHyphenPerRun(Tail(str), acc)

\* C24 as stated: for every title the slug holds only lowercase ASCII
\* letters, digits and hyphens, no whitespace and no two hyphens in a row,
\* and equals the title lower-cased, accents stripped, other characters
\* removed and each run of spaces replaced by one hyphen
C24_SlugAsWritten ==
    slug.pc = "returned" =>
        /\ WellFormedSlug(slug.out)
        /\ slug.out = AsWritten(slug.title, <<>>, FALSE)

\* C24, amended: for every title the slug holds only lowercase ASCII
\* letters, digits and hyphens, no whitespace and no two hyphens in a row,
\* and equals the title with its combining marks stripped and its leading
\* and trailing whitespace trimmed, then lower-cased without accents, other
\* characters removed and each run of spaces and hyphens replaced by one
\* hyphen; the example of the doc comment gives the documented slug
C24_SlugShape ==
    /\ gerarSlug(ExampleTitle) = ExampleSlug
    /\ slug.pc = "returned" =>
         /\ WellFormedSlug(slug.out)
         /\ slug.out = OneHyphenPerRun(trim(SelectSeq(slug.title, NotCombiningMark)), <<>>)

\* a title with an accented letter, leading whitespace and a capital
\* has been turned into its slug
C24_Witness ==
    /\ slug.pc = "returned"
    /\ slug.title = <<" ", "U+00E1", "B">>
    /\ slug.out = <<"a", "b">>

SeedFailed == Has(seed.log, "console.error: Erro durante o seed")

SeedSucceeded == Has(seed.log, "Seed concluido com sucesso!")

SeedConnected == Has(seed.log, "Ligacao ao mongo foi feita")

\* every occurrence of b in the log has an a before it
Before(a, b) ==
    \A j \in DOMAIN seed.log :
        seed.log[j] = b => \E i \in 1..(j - 1) : seed.log[i] = a

\* the lines of the finally block
Closing == {"mongoose.disconnect", "Ligacao ao MongoDB fechada."}

\* C21: on every path of runSeed (success, or an error thrown by
\* connecting, by criarUtilizadores or by criarTeorias) mongoose.disconnect
\* is called exactly once, as the last call of the run, never before the
\* run is over, and an error is caught and logged: the run ends normally
C21_AlwaysDisconnects ==
    /\ seed.pc \in {"mongoose.connect", "User.deleteMany", "bcrypt.hash",
                    "User.insertMany", "Theory.deleteMany", "Theory.insertMany"}
         => Count(seed.log, "mongoose.disconnect") = 0
    /\ seed.pc \in {"mongoose.disconnect", "finished"}
         => /\ Count(seed.log, "mongoose.disconnect") = 1
            /\ SeedFailed \/ SeedSucceeded
            /\ ~(SeedFailed /\ SeedSucceeded)
    /\ seed.pc = "finished"
         => /\ Len(seed.log) >= 2
            /\ seed.log[Len(seed.log) - 1] = "mongoose.disconnect"
            /\ seed.log[Len(seed.log)] = "Ligacao ao MongoDB fechada."
            /\ ~seed.connected
    /\ seed.pc # "rejected"

\* a run that connected, failed in a later step and closed the connection
C21_Witness ==
    /\ seed.pc = "finished"
    /\ SeedFailed
    /\ SeedConnected
    /\ Has(seed.log, "User.deleteMany")

\* C22: runSeed connects, then creates the users, then the theories, each
\* step starting only after the one before completed; after an error no
\* later step runs, the theories are untouched when the creation of the
\* users failed, and the summary is printed only after all three succeeded
C22_StepsInOrder ==
    seed.pc \notin {"start", "crashed"} =>
        /\ Before("Ligacao ao mongo foi feita", "A criar utilizadores...")
        /\ Before("2 utilizadores criados.", "A criar teorias da conspiracao...")
        /\ Before("10 teorias criadas.", "Seed concluido com sucesso!")
        /\ Before("A criar utilizadores...", "2 utilizadores criados.")
        /\ Before("A criar teorias da conspiracao...", "10 teorias criadas.")
        /\ \A i \in DOMAIN seed.log :
             seed.log[i] = "console.error: Erro durante o seed"
                => \A j \in (i + 1)..Len(seed.log) : seed.log[j] \in Closing
        /\ (SeedFailed /\ ~Has(seed.log, "2 utilizadores criados."))
             => theories = seed.pre.theories
        /\ SeedSucceeded
             => /\ seed.created.users # {} /\ seed.created.users \subseteq users
                /\ seed.created.theories # {}
                /\ seed.created.theories \subseteq theories

\* the creation of the users failed after their deletion, with theories in
\* the collection, which are still there
C22_Witness ==
    /\ seed.pc = "finished"
    /\ SeedFailed
    /\ Has(seed.log, "User.deleteMany")
    /\ ~Has(seed.log, "2 utilizadores criados.")
    /\ theories # {}
    /\ theories = seed.pre.theories

\* what the script decides of a stored user or theory: its fields without
\* those generated at insertion (_id, the salt in passwordHash, timestamps)
SeededUser(d) == [email |-> d.email, displayName |-> d.displayName, role |-> d.role]

SeededTheory(d) == [title |-> d.title, slug |-> d.slug,
                    complexityLevel |-> d.complexityLevel]

\* the collections hold exactly the two users and the ten theories of the script
ExactlySeeded ==
    /\ Cardinality(users) = 2
    /\ {SeededUser(d) : d \in users}
         = {[email |-> "admin@conspira.local",
             displayName |-> "Administrador das Teorias", role |-> "admin"],
            [email |-> "user@conspira.local",
             displayName |-> "Curioso Anonimo", role |-> "user"]}
    /\ Cardinality(theories) = 10
    /\ {d.title : d \in theories} = {teoriasBase[i].title : i \in DOMAIN teoriasBase}
    /\ \A d \in theories : d.slug = gerarSlug(d.title) /\ WellFormedSlug(d.slug)

\* C23 as stated: after a successful run, whatever the collections held,
\* users holds exactly the two seeded users and theories the ten seeded
\* theories, and a second run leaves the same contents as the first
C23_SameContents ==
    (seed.pc = "finished" /\ SeedSucceeded) =>
        /\ ExactlySeeded
        /\ seed.last.ok => (users = seed.last.users /\ theories = seed.last.theories)

\* C23, amended: after a successful run, whatever the collections held,
\* users holds exactly the two seeded users (one admin, one user) and
\* theories the ten seeded theories; a second run leaves the same contents
\* as the first up to the fields generated at insertion, which are new: no
\* document of the first run is left
C23_ResetsToSeeded ==
    (seed.pc = "finished" /\ SeedSucceeded) =>
        /\ ExactlySeeded
        /\ users = seed.created.users
        /\ theories = seed.created.theories
        /\ seed.last.ok =>
             /\ {SeededUser(d) : d \in users} = {SeededUser(d) : d \in seed.last.users}
             /\ {SeededTheory(d) : d \in theories}
                  = {SeededTheory(d) : d \in seed.last.theories}
             /\ users \cap seed.last.users = {}
             /\ theories \cap seed.last.theories = {}

\* a second successful run, over the collections the first one left
C23_Witness ==
    /\ seed.pc = "finished"
    /\ SeedSucceeded
    /\ seed.last.ok
    /\ seed.pre.users = seed.last.users
    /\ seed.run = 2

\* C29 as stated: a run that fails at any step leaves users and theories
\* with exactly their contents of before the run
C29_AllOrNothing ==
    (seed.pc = "finished" /\ SeedFailed) =>
        /\ users = seed.pre.users
        /\ theories = seed.pre.theories

\* C29, amended: a run that fails while connecting leaves both collections
\* as they were; a run that fails later leaves users as they were, emptied
\* or replaced by the seeded users, and theories as they were or emptied,
\* the theories being touched only after the users were replaced
C29_FailedRunContents ==
    (seed.pc = "finished" /\ SeedFailed) =>
        /\ ~SeedConnected => (users = seed.pre.users /\ theories = seed.pre.theories)
        /\ users \in {seed.pre.users, {}, seed.created.users}
        /\ theories \in {seed.pre.theories, {}}
        /\ Has(seed.log, "Theory.deleteMany")
             => (users = seed.created.users /\ Cardinality(users) = 2)
        /\ ~Has(seed.log, "Theory.deleteMany") => theories = seed.pre.theories

\* a failed run that emptied a collection which held documents and did
\* not fill it again
C29_Witness ==
    /\ seed.pc = "finished"
    /\ SeedFailed
    /\ seed.pre.users # {}
    /\ users = {}
    /\ theories = seed.pre.theories

====
